---------------------------- MODULE Spec2Model ----------------------------
(* A model of package queue (src/queue, src/unnamed/part_000..002): the    *)
(* slice-backed Queue[T] with its five order disciplines, its insertion    *)
(* and removal functions, the shrink policy and the mutex.                 *)
(*                                                                         *)
(* A Go slice is modelled by the part of its backing array that the slice  *)
(* header can reach: arr holds cap(s) slots, the first len of which are    *)
(* the slice's elements.  Elements are pointers (1..MaxElems) into a heap  *)
(* of PriorityElement values; Nil is the nil interface value.  A run-time  *)
(* panic (index or slice bounds out of range, method call on nil) is the   *)
(* outcome st = "panic" of the call in which it happens.                   *)
EXTENDS Integers, Sequences, FiniteSets, TLC

\* ------------------------------------------------------------ bounds
MaxElems == 3
MaxPrio == 3
MaxLimit == 2
MaxConcElems == 2
MaxConcPrio == 2
NumGoroutines == 2
MaxChanCap == 2
MaxSortLen == 5
MaxSortVal == 1

\* ------------------------------------------------- program constants
Fifo == 0
Lifo == 1
PriorityHigh == 2
PriorityLow == 3
FifoLimited == 4
numQueuetypes == 5

Nil == 0

ErrNone == "nil"
ErrEmptyQueue == "queue is empty"
ErrIndexOutOfBounds == "provided index is out of bounds"
ErrInvalidQueueType == "provided queuetype is not invalid"
ErrInvalidQueueLimit == "provided limit for queue is invalid"

Ptrs == 1..MaxElems
Prios == 1..MaxPrio

\* ------------------------------------------------------------ slices
\* len(s), cap(s), and the elements s[0..len-1] as a sequence.
SLen(s) == s.len
SCap(s) == Len(s.arr)
Elems(s) == SubSeq(s.arr, 1, s.len)

\* make([]Element[T], n, c)
MakeSlice(n, c) == [arr |-> [k \in 1..c |-> Nil], len |-> n]

\* []Element[T]{elem}
Lit(elem) == [arr |-> <<elem>>, len |-> 1]

\* s[lo:hi]; legal when 0 <= lo <= hi <= cap(s), a panic otherwise.
SliceOK(s, lo, hi) == 0 <= lo /\ lo <= hi /\ hi <= SCap(s)
SubSlice(s, lo, hi) == [arr |-> SubSeq(s.arr, lo + 1, SCap(s)), len |-> hi - lo]

\* s[i] is legal when 0 <= i < len(s); At reads it (0-based).
IndexOK(s, i) == 0 <= i /\ i < s.len
At(s, i) == s.arr[i + 1]

\* s[i] = v
SetAt(s, i, v) == [s EXCEPT !.arr[i + 1] = v]

\* The capacity the runtime gives a slice that append has to reallocate:
\* the needed length when that is more than double the old capacity, else
\* double the old capacity (the slices of the model stay far below 256
\* elements, and every multiple of 16 bytes up to 256 is a size class).
GrowCap(oldCap, needed) == IF needed > 2 * oldCap THEN needed ELSE 2 * oldCap

\* append(s, xs...): in place when the capacity suffices, else into a new array.
AppendSlice(s, xs) ==
    LET n == s.len + Len(xs)
        c == IF n <= SCap(s) THEN SCap(s) ELSE GrowCap(SCap(s), n)
    IN  [arr |-> [k \in 1..c |->
                    IF k <= s.len THEN s.arr[k]
                    ELSE IF k <= n THEN xs[k - s.len]
                    ELSE IF k <= SCap(s) /\ n <= SCap(s) THEN s.arr[k]
                    ELSE Nil],
         len |-> n]

\* copy(s[i:], s[i+1:]) on a slice of length len(s): s[i..len-2] = s[i+1..len-1].
CopyDown(s, i) ==
    [s EXCEPT !.arr = [k \in 1..SCap(s) |->
                         IF k >= i + 1 /\ k <= s.len - 1 THEN s.arr[k + 1] ELSE s.arr[k]]]

\* ---------------------------------------------------------- outcomes
\* The outcome of a function of the package on queue value qv.
Ok(qv) == [q |-> qv, st |-> "ok", err |-> ErrNone, elem |-> Nil]
Panic(qv) == [q |-> qv, st |-> "panic", err |-> ErrNone, elem |-> Nil]
Fail(qv, e) == [q |-> qv, st |-> "ok", err |-> e, elem |-> Nil]
Got(qv, el) == [q |-> qv, st |-> "ok", err |-> ErrNone, elem |-> el]


MinOf(S) == CHOOSE x \in S : \A y \in S : x <= y
MaxOf(S) == CHOOSE x \in S : \A y \in S : x >= y

\* ------------------------------------------------------ construction
\* NewQueue(tp): the queue value it returns, or ErrInvalidQueueType.
NewQueue(tp) ==
    IF tp < 0 \/ tp > numQueuetypes
    THEN Fail(Nil, ErrInvalidQueueType)
    ELSE Ok([order |-> tp, queueSlice |-> MakeSlice(0, 0),
             numElements |-> 0, maxnumElements |-> 0])

\* --------------------------------------------------- shrink policy
\* shrinkFactor and afterShrinkFactor in units of 1/100000.
shrinkFactor(qv) ==
    IF qv.numElements < 1000 THEN 75000
    ELSE IF qv.numElements < 10000 THEN 90000
    ELSE IF qv.numElements < 100000 THEN 99000
    ELSE IF qv.numElements < 1000000 THEN 99900
    ELSE 99990

afterShrinkFactor(qv) ==
    IF qv.numElements < 1000 THEN 80000
    ELSE IF qv.numElements < 10000 THEN 95000
    ELSE IF qv.numElements < 100000 THEN 99500
    ELSE IF qv.numElements < 1000000 THEN 99950
    ELSE 99995

\* math.Ceil(a / 100000)
CeilDiv(a) == (a + 99999) \div 100000

\* handleShrink: below the shrink factor the slice moves to a new array of
\* capacity ceil(afterShrinkFactor * cap), keeping its len(queueSlice) elements.
handleShrink(qv) ==
    LET s == qv.queueSlice
        lenQ == SLen(s)
        newCap == CeilDiv(afterShrinkFactor(qv) * SCap(s))
    IN  IF lenQ * 100000 < shrinkFactor(qv) * SCap(s)
        THEN IF lenQ > newCap
             THEN Panic(qv)
             ELSE Ok([qv EXCEPT !.queueSlice =
                        [arr |-> [k \in 1..newCap |-> IF k <= lenQ THEN s.arr[k] ELSE Nil],
                         len |-> lenQ]])
        ELSE Ok(qv)

\* --------------------------------------------------------- removal
\* deleteWithoutMemoryManagement as it would be with the bounds check
\* before the check for the empty queue.
deleteBoundsFirst(qv, i) ==
    LET s == qv.queueSlice
        lenQ == qv.numElements
    IN  IF i < 0 \/ i >= qv.numElements THEN Fail(qv, ErrIndexOutOfBounds)
        ELSE IF lenQ = 0 THEN Fail(qv, ErrEmptyQueue)
        ELSE IF ~IndexOK(s, i) THEN Panic(qv)
        ELSE IF i = 0
        THEN Got([qv EXCEPT !.queueSlice = SubSlice(SetAt(s, 0, Nil), 1, s.len),
                            !.numElements = @ - 1], At(s, i))
        ELSE LET c == CopyDown(s, i) IN
             IF ~IndexOK(c, lenQ - 1)
             THEN Panic([qv EXCEPT !.queueSlice = c])
             ELSE Got([qv EXCEPT !.queueSlice = SubSlice(SetAt(c, lenQ - 1, Nil), 0, lenQ - 1),
                                 !.numElements = @ - 1], At(s, i))

deleteWithoutMemoryManagement(qv, i) ==
    LET s == qv.queueSlice
        lenQ == qv.numElements
    IN  IF lenQ = 0 THEN Fail(qv, ErrEmptyQueue)
        ELSE IF i < 0 \/ i >= qv.numElements THEN Fail(qv, ErrIndexOutOfBounds)
        ELSE IF ~IndexOK(s, i) THEN Panic(qv)
        ELSE LET elem == At(s, i) IN
             IF i = lenQ
             THEN Got([qv EXCEPT !.queueSlice = SubSlice(s, 0, i),
                                 !.numElements = @ - 1], elem)
             ELSE IF i = 0
             THEN Got([qv EXCEPT !.queueSlice = SubSlice(SetAt(s, 0, Nil), 1, s.len),
                                 !.numElements = @ - 1], elem)
             ELSE LET c == CopyDown(s, i) IN
                  IF ~IndexOK(c, lenQ - 1)
                  THEN Panic([qv EXCEPT !.queueSlice = c])
                  ELSE Got([qv EXCEPT !.queueSlice = SubSlice(SetAt(c, lenQ - 1, Nil), 0, lenQ - 1),
                                      !.numElements = @ - 1], elem)

\* remove: the deletion, then handleShrink (also after a failed deletion).
remove(qv, i) ==
    LET d == deleteWithoutMemoryManagement(qv, i)
        h == handleShrink(d.q)
    IN  IF d.st = "panic" THEN d
        ELSE IF h.st = "panic" THEN h
        ELSE [d EXCEPT !.q = h.q]

\* ------------------------------------------------------- insertion
\* insertFifo as it would be with the element put behind the others.
insertFifoAtTail(qv, elem) ==
    [qv EXCEPT !.queueSlice = AppendSlice(qv.queueSlice, <<elem>>)]

insertFifo(qv, elem) ==
    [qv EXCEPT !.queueSlice = AppendSlice(Lit(elem), Elems(qv.queueSlice))]

insertLifo(qv, elem) ==
    [qv EXCEPT !.queueSlice = AppendSlice(qv.queueSlice, <<elem>>)]

\* backtrackInsertionPoint: from index numElements-1 down to the first
\* element of another priority, at index i; the slice becomes
\* append(queueSlice[i:], elem, queueSlice[:i]...), or elem is prepended
\* when every element has elem's priority.
backtrackInsertionPoint(qv, elem, pr) ==
    LET s == qv.queueSlice
        D == {i \in 0..(qv.numElements - 1) :
                \/ ~IndexOK(s, i)
                \/ At(s, i) = Nil
                \/ pr[At(s, i)] # pr[elem]}
    IN  IF D = {} THEN Ok(insertFifo(qv, elem))
        ELSE LET i == MaxOf(D) IN
             IF ~IndexOK(s, i) \/ At(s, i) = Nil THEN Panic(qv)
             ELSE Ok([qv EXCEPT !.queueSlice =
                        AppendSlice(SubSlice(s, i, s.len),
                                    <<elem>> \o SubSeq(s.arr, 1, i))])

\* The loop of insertPriorityHigh / insertPriorityLow: Stops is the set of
\* indexes at which the loop does not `continue`; at the first of them, i,
\* the slice becomes append(queueSlice[:i-1], elem, queueSlice[i-1:]...).
spliceAtFirst(qv, elem, Stops) ==
    LET s == qv.queueSlice IN
    IF Stops = {} THEN Ok(qv)
    ELSE LET i == MinOf(Stops) IN
         IF At(s, i) = Nil THEN Panic(qv)
         ELSE IF ~SliceOK(s, 0, i - 1) THEN Panic(qv)
         ELSE Ok([qv EXCEPT !.queueSlice =
                    AppendSlice(SubSlice(s, 0, i - 1),
                                <<elem>> \o SubSeq(s.arr, i, s.len))])

insertPriorityHigh(qv, elem, pr) ==
    LET s == qv.queueSlice
        n == qv.numElements
    IN  IF n = 0 THEN Ok(insertLifo(qv, elem))
        ELSE IF ~IndexOK(s, n - 1) \/ At(s, n - 1) = Nil THEN Panic(qv)
        ELSE IF pr[At(s, n - 1)] < pr[elem] THEN Ok(insertLifo(qv, elem))
        ELSE LET b == IF pr[At(s, n - 1)] = pr[elem]
                      THEN backtrackInsertionPoint(qv, elem, pr)
                      ELSE Ok(qv)
                 t == b.q.queueSlice
             IN  IF b.st = "panic" THEN b
                 ELSE spliceAtFirst(b.q, elem,
                        {i \in 0..(t.len - 1) :
                            At(t, i) = Nil \/ ~(pr[At(t, i)] < pr[elem])})

insertPriorityLow(qv, elem, pr) ==
    LET s == qv.queueSlice
        n == qv.numElements
    IN  IF n = 0 THEN Ok(insertLifo(qv, elem))
        ELSE IF ~IndexOK(s, n - 1) \/ At(s, n - 1) = Nil THEN Panic(qv)
        ELSE IF pr[At(s, n - 1)] > pr[elem] THEN Ok(insertLifo(qv, elem))
        ELSE LET b == IF pr[At(s, n - 1)] = pr[elem]
                      THEN backtrackInsertionPoint(qv, elem, pr)
                      ELSE Ok(qv)
                 t == b.q.queueSlice
             IN  IF b.st = "panic" THEN b
                 ELSE spliceAtFirst(b.q, elem,
                        {i \in 0..(t.len - 1) :
                            At(t, i) = Nil \/ ~(pr[At(t, i)] > pr[elem])})

insertFifoLimited(qv, elem) ==
    IF qv.numElements = qv.maxnumElements /\ qv.maxnumElements # 0
    THEN LET r == remove(qv, qv.numElements - 1) IN
         IF r.st = "panic" \/ r.err # ErrNone
         THEN [r EXCEPT !.elem = Nil]
         ELSE Ok(insertFifo(r.q, elem))
    ELSE Ok(insertFifo(qv, elem))

\* The switch of Insert; returned is TRUE where the case returns from Insert.
insertSwitch(qv, elem, pr) ==
    CASE qv.order = Fifo -> [out |-> Ok(insertFifo(qv, elem)), returned |-> FALSE]
      [] qv.order = Lifo -> [out |-> Ok(insertLifo(qv, elem)), returned |-> FALSE]
      [] qv.order = PriorityHigh ->
            [out |-> insertPriorityHigh(qv, elem, pr), returned |-> FALSE]
      [] qv.order = PriorityLow ->
            [out |-> insertPriorityLow(qv, elem, pr), returned |-> FALSE]
      [] qv.order = FifoLimited ->
            [out |-> insertFifoLimited(qv, elem), returned |-> TRUE]
      [] OTHER -> [out |-> Fail(qv, ErrInvalidQueueType), returned |-> TRUE]

\* q.numElements++ after the switch, unless the switch returned or panicked.
insertCount(sw) ==
    IF sw.returned \/ sw.out.st = "panic"
    THEN sw.out
    ELSE [sw.out EXCEPT !.q.numElements = @ + 1]

\* The body of Insert, between Lock and the deferred Unlock.
insertBody(qv, elem, pr) == insertCount(insertSwitch(qv, elem, pr))

\* The body of Append.
appendBody(qv, elem) ==
    Ok([insertLifo(qv, elem) EXCEPT !.numElements = @ + 1])

\* The body of Remove and of RemoveElement: remove(numElements-1); Remove
\* then calls Content() and Priority() on the element.
removeElementBody(qv) == remove(qv, qv.numElements - 1)

removeBody(qv) ==
    LET r == remove(qv, qv.numElements - 1) IN
    IF r.st = "ok" /\ r.err = ErrNone /\ r.elem = Nil THEN Panic(r.q) ELSE r

\* ------------------------------------------------------------ peeks
PeekElemBody(qv) ==
    IF qv.numElements = 0 THEN Fail(qv, ErrEmptyQueue)
    ELSE IF ~IndexOK(qv.queueSlice, qv.numElements - 1) THEN Panic(qv)
    ELSE IF At(qv.queueSlice, qv.numElements - 1) = Nil THEN Panic(qv)
    ELSE Got(qv, At(qv.queueSlice, qv.numElements - 1))

PeekElemAtIndexBody(qv, index) ==
    LET realIndex == (qv.numElements - 1) - index IN
    IF qv.numElements = 0 THEN Fail(qv, ErrEmptyQueue)
    ELSE IF realIndex < 0 THEN Fail(qv, ErrIndexOutOfBounds)
    ELSE IF ~IndexOK(qv.queueSlice, realIndex) THEN Panic(qv)
    ELSE IF At(qv.queueSlice, realIndex) = Nil THEN Panic(qv)
    ELSE Got(qv, At(qv.queueSlice, realIndex))

\* SetLimit
SetLimitBody(qv, limit) ==
    IF limit < 0 THEN Fail(qv, ErrInvalidQueueLimit)
    ELSE Ok([qv EXCEPT !.maxnumElements = limit])

\* --------------------------------------------------- UpdatePriority
\* The loop of UpdatePriority over a Fifo or Lifo queue, from index i on:
\* h is the heap of elements, n the counter.
RECURSIVE updateUnsorted(_, _, _, _, _, _)
updateUnsorted(s, h, n, i, old, new) ==
    IF i >= s.len THEN [elems |-> h, counter |-> n, st |-> "ok"]
    ELSE LET e == At(s, i) IN
         IF e = Nil THEN [elems |-> h, counter |-> n, st |-> "panic"]
         ELSE IF h[e].priority = old
         THEN updateUnsorted(s, [h EXCEPT ![e].priority = new], n + 1, i + 1, old, new)
         ELSE updateUnsorted(s, h, n, i + 1, old, new)

PrioOf(h) == [p \in DOMAIN h |-> h[p].priority]

\* The loop of UpdatePriority over a PriorityHigh or PriorityLow queue, from
\* index i on.  The range clause reads its n0 elements through the slice
\* header it copied before the loop: c.A is what that header reaches of the
\* backing array, and c.q.queueSlice, which the deletions move and shorten,
\* is a suffix of it.  c.list buffers the elements for reinsertion.  With
\* the performance flag the loop calls q.Insert, which locks the mutex that
\* UpdatePriority holds: st = "deadlock".
RECURSIVE updateSorted(_, _, _, _, _, _)
updateSorted(c, i, n0, old, new, perf) ==
    IF i >= n0 THEN c
    ELSE LET e == c.A[i + 1] IN
         IF e = Nil THEN [c EXCEPT !.st = "panic"]
         ELSE IF c.elems[e].priority = old
         THEN LET d == deleteWithoutMemoryManagement(c.q, i)
                  off == Len(c.A) - SCap(c.q.queueSlice)
                  off2 == Len(c.A) - SCap(d.q.queueSlice)
                  A2 == SubSeq(c.A, 1, off)
                          \o (IF off2 > off THEN <<Nil>> ELSE <<>>)
                          \o d.q.queueSlice.arr
                  c2 == [c EXCEPT !.A = A2, !.q = d.q]
              IN  IF d.st = "panic" THEN [c2 EXCEPT !.st = "panic"]
                  ELSE IF perf
                  THEN [c2 EXCEPT !.elems[e].priority = new, !.st = "deadlock"]
                  ELSE updateSorted([c2 EXCEPT !.elems[e].priority = new,
                                               !.list = Append(@, e)],
                                    i + 1, n0, old, new, perf)
         ELSE updateSorted(c, i + 1, n0, old, new, perf)

\* The body of UpdatePriority: the queue, the heap and the counter it
\* returns, or the panic or the deadlock it ends in.  Without the
\* performance flag the buffered elements are reinserted by q.Insert after
\* the loop, which locks the mutex that UpdatePriority holds.
UpdatePriorityBody(qv, h, old, new, perf) ==
    IF qv.order \in {Lifo, Fifo}
    THEN LET u == updateUnsorted(qv.queueSlice, h, 0, 0, old, new) IN
         [q |-> qv, elems |-> u.elems, counter |-> u.counter, st |-> u.st]
    ELSE IF qv.order \in {PriorityHigh, PriorityLow}
    THEN LET c == updateSorted([A |-> qv.queueSlice.arr, q |-> qv, elems |-> h,
                                list |-> <<>>, st |-> "ok"],
                               0, qv.queueSlice.len, old, new, perf)
         IN  [q |-> c.q, elems |-> c.elems, counter |-> 0,
              st |-> IF c.st = "ok" /\ ~perf /\ c.list # <<>> THEN "deadlock" ELSE c.st]
    ELSE [q |-> qv, elems |-> h, counter |-> 0, st |-> "ok"]

\* ------------------------------------------------------------- state
VARIABLES
    q,         \* the Queue: order, queueSlice, numElements, maxnumElements
    elems,     \* the heap of PriorityElement values: priority and content
    nAlloc,    \* the number of elements built by NewPriorityElement
    lock,      \* q.lock: 0 when unlocked, else the goroutine that holds it
    status,    \* "ok", or "panic" / "deadlock" once a call has ended so
    ret,       \* what the last completed call of the sequential caller returned
    live,      \* the elements handed to the queue and not handed back or evicted
    appended,  \* whether Append has been called
    pc,        \* where each goroutine of the concurrent callers is
    call,      \* the call each goroutine is in, with its locals
    snap,      \* the queue and heap as they were when the goroutine locked
    res,       \* what the last call of the functional layer returned
    it,        \* the channel, context and goroutine of Iterator
    ms,        \* the slice MergeSort works on and its invocations
    clone      \* the queue Clone has returned

vars == <<q, elems, nAlloc, lock, status, ret, live, appended, pc, call, snap,
          res, it, ms, clone>>
concvars == <<pc, call, snap>>
funcvars == <<res, it, ms, clone>>

Goroutines == 1..NumGoroutines

NoRet == [op |-> "none", err |-> ErrNone, elem |-> Nil, priority |-> 0,
          content |-> 0, arg |-> 0]
NoCall == [op |-> "none", elem |-> Nil, old |-> 0, new |-> 0, perf |-> FALSE,
           err |-> ErrNone, out |-> Nil, returned |-> FALSE]

\* The heap before any element is built, and the snapshot of a goroutine
\* that is in no call.
NoElems == [p \in Ptrs |-> [priority |-> 0, content |-> 0]]
NoSnap == [q |-> [order |-> Fifo, queueSlice |-> MakeSlice(0, 0),
                  numElements |-> 0, maxnumElements |-> 0],
           elems |-> NoElems]

\* No call of the functional layer has returned, no Iterator has been
\* called, and MergeSort has not been called.
NoRes == [op |-> "none", err |-> ErrNone, val |-> <<>>]
NoIter == [pc |-> "none", cap |-> 0, buf |-> <<>>, hdr |-> <<>>, i |-> 0,
           cancelled |-> FALSE, closed |-> FALSE, recv |-> <<>>, eof |-> FALSE,
           arr |-> <<>>, shared |-> FALSE, val |-> 0, snapshot |-> <<>>]
NoClone == [made |-> FALSE, q |-> NoSnap.q]
NoSort == [sort |-> <<>>, input |-> <<>>, frames |-> <<>>]

\* The disciplines and limits the model constructs queues with.
TpInputs == (0 - 1)..(numQueuetypes + 1)
LimitInputs == (0 - 1)..MaxLimit
IndexInputs == (0 - 2)..(MaxElems + 1)

\* The state after q, _ := NewQueue(tp) has returned a queue.
Init ==
    /\ \E tp \in TpInputs :
          /\ NewQueue(tp).err = ErrNone
          /\ q = NewQueue(tp).q
    /\ elems = NoElems
    /\ nAlloc = 0
    /\ lock = 0
    /\ status = "ok"
    /\ ret = NoRet
    /\ live = {}
    /\ appended = FALSE
    /\ pc = [g \in Goroutines |-> "idle"]
    /\ call = [g \in Goroutines |-> NoCall]
    /\ snap = [g \in Goroutines |-> NoSnap]
    /\ res = NoRes
    /\ it = NoIter
    /\ ms = NoSort
    /\ clone = NoClone

\* NewPriorityElement(c, priority): the heap with the new element at p.
NewPriorityElement(h, p, priority) ==
    [h EXCEPT ![p] = [priority |-> priority, content |-> p]]

\* What a call that returns element e (or fails) hands to its caller.
RetOf(op, r, h, arg) ==
    [op |-> op, err |-> r.err, elem |-> r.elem,
     priority |-> IF r.elem = Nil THEN 0 ELSE h[r.elem].priority,
     content |-> IF r.elem = Nil THEN 0 ELSE h[r.elem].content,
     arg |-> arg]

\* The element insertFifoLimited evicts before it inserts, if any.
Evicted(qv) ==
    IF qv.order = FifoLimited /\ qv.numElements = qv.maxnumElements
       /\ qv.maxnumElements # 0
    THEN {remove(qv, qv.numElements - 1).elem} \ {Nil}
    ELSE {}

\* ------------------------------------------- the sequential caller
\* Each action is one call of the first goroutine, from Lock to the deferred
\* Unlock.  A call that panics or deadlocks ends the program.
Ready == status = "ok" /\ lock = 0 /\ \A g \in Goroutines : pc[g] = "idle"

SetLimit(limit) ==
    /\ Ready
    /\ LET r == SetLimitBody(q, limit) IN
       /\ q' = r.q
       /\ ret' = RetOf("SetLimit", r, elems, limit)
    /\ UNCHANGED <<elems, nAlloc, lock, status, live, appended, concvars, funcvars>>

Insert(priority) ==
    /\ Ready
    /\ nAlloc < MaxElems
    /\ LET e == nAlloc + 1
           h == NewPriorityElement(elems, e, priority)
           r == insertBody(q, e, PrioOf(h))
       IN  /\ q' = r.q
           /\ elems' = h
           /\ nAlloc' = e
           /\ status' = r.st
           /\ ret' = RetOf("Insert", r, h, e)
           /\ live' = IF r.st = "ok" /\ r.err = ErrNone
                      THEN (live \ Evicted(q)) \cup {e}
                      ELSE live
    /\ UNCHANGED <<lock, appended, concvars, funcvars>>

AppendElem(priority) ==
    /\ Ready
    /\ nAlloc < MaxElems
    /\ LET e == nAlloc + 1
           h == NewPriorityElement(elems, e, priority)
           r == appendBody(q, e)
       IN  /\ q' = r.q
           /\ elems' = h
           /\ nAlloc' = e
           /\ ret' = RetOf("Append", r, h, e)
           /\ live' = live \cup {e}
    /\ appended' = TRUE
    /\ UNCHANGED <<lock, status, concvars, funcvars>>

Remove ==
    /\ Ready
    /\ LET r == removeBody(q) IN
       /\ q' = r.q
       /\ status' = r.st
       /\ ret' = RetOf("Remove", r, elems, 0)
       /\ live' = live \ {r.elem}
    /\ UNCHANGED <<elems, nAlloc, lock, appended, concvars, funcvars>>

RemoveElement ==
    /\ Ready
    /\ LET r == removeElementBody(q) IN
       /\ q' = r.q
       /\ status' = r.st
       /\ ret' = RetOf("RemoveElement", r, elems, 0)
       /\ live' = live \ {r.elem}
    /\ UNCHANGED <<elems, nAlloc, lock, appended, concvars, funcvars>>

PeekElem ==
    /\ Ready
    /\ LET r == PeekElemBody(q) IN
       /\ q' = r.q
       /\ status' = r.st
       /\ ret' = RetOf("PeekElem", r, elems, 0)
    /\ UNCHANGED <<elems, nAlloc, lock, live, appended, concvars, funcvars>>

PeekElemAtIndex(index) ==
    /\ Ready
    /\ LET r == PeekElemAtIndexBody(q, index) IN
       /\ q' = r.q
       /\ status' = r.st
       /\ ret' = RetOf("PeekElemAtIndex", r, elems, index)
    /\ UNCHANGED <<elems, nAlloc, lock, live, appended, concvars, funcvars>>

\* UpdatePriority; a deadlock leaves the mutex with the caller for good.
UpdatePriority(old, new, perf) ==
    /\ Ready
    /\ LET u == UpdatePriorityBody(q, elems, old, new, perf) IN
       /\ q' = u.q
       /\ elems' = u.elems
       /\ status' = u.st
       /\ lock' = IF u.st = "deadlock" THEN 1 ELSE 0
       /\ ret' = IF u.st = "ok"
                 THEN [NoRet EXCEPT !.op = "UpdatePriority", !.arg = u.counter]
                 ELSE [NoRet EXCEPT !.op = "UpdatePriority"]
    /\ UNCHANGED <<nAlloc, live, appended, concvars, funcvars>>

\* Every mutating call of the API.
Next ==
    \/ \E limit \in LimitInputs : SetLimit(limit)
    \/ \E priority \in Prios : Insert(priority)
    \/ \E priority \in Prios : AppendElem(priority)
    \/ Remove
    \/ RemoveElement
    \/ \E old \in Prios, new \in Prios, perf \in BOOLEAN : UpdatePriority(old, new, perf)

Spec == Init /\ [][Next]_vars

\* The callers that only insert and remove, under a limit they may set.
InsertRemoveNext ==
    \/ \E limit \in LimitInputs : SetLimit(limit)
    \/ \E priority \in Prios : Insert(priority)
    \/ Remove

InsertRemoveSpec == Init /\ [][InsertRemoveNext]_vars

\* The callers that insert, remove and peek.
PeekNext ==
    \/ \E priority \in Prios : Insert(priority)
    \/ Remove
    \/ RemoveElement
    \/ PeekElem
    \/ \E index \in IndexInputs : PeekElemAtIndex(index)

PeekSpec == Init /\ [][PeekNext]_vars

\* ------------------------------------------- the concurrent callers
\* Goroutines call Insert, Append, Remove, RemoveElement and UpdatePriority
\* on the one queue.  A call locks q.lock (the caller of Insert or Append
\* has built its element), runs its body in two steps and returns through
\* the deferred Unlock.  pc: "idle" (between calls, or waiting in Lock),
\* "locked", "mid", "relock" (waiting in the Lock of the q.Insert that
\* UpdatePriority calls), "nested", "panicked".
ConcPrios == 1..MaxConcPrio

CallInputs ==
    {[NoCall EXCEPT !.op = o] : o \in {"Insert", "Append", "Remove", "RemoveElement"}}
    \cup {[NoCall EXCEPT !.op = "UpdatePriority", !.old = o, !.new = n, !.perf = f] :
            o \in ConcPrios, n \in ConcPrios, f \in BOOLEAN}

Running == status = "ok"

\* Lock as it would be if it did not wait for the mutex.
AcquireWithoutWaiting(g) == lock' = g

\* q.lock.Lock(): waits until the mutex is unlocked, then holds it.
Acquire(g) == lock = 0 /\ lock' = g

\* Goroutine g enters call c, with an element of the given priority; or it
\* enters the q.Insert of UpdatePriority.
Lock(g, c, priority) ==
    /\ Running
    /\ Acquire(g)
    /\ \/ /\ pc[g] = "idle"
          /\ IF c.op \in {"Insert", "Append"}
             THEN /\ nAlloc < MaxConcElems
                  /\ nAlloc' = nAlloc + 1
                  /\ elems' = NewPriorityElement(elems, nAlloc + 1, priority)
                  /\ call' = [call EXCEPT ![g] = [c EXCEPT !.elem = nAlloc + 1]]
             ELSE /\ priority = 1
                  /\ call' = [call EXCEPT ![g] = c]
                  /\ UNCHANGED <<nAlloc, elems>>
          /\ pc' = [pc EXCEPT ![g] = "locked"]
          /\ snap' = [snap EXCEPT ![g] = [q |-> q, elems |-> elems']]
       \/ /\ pc[g] = "relock"
          /\ pc' = [pc EXCEPT ![g] = "nested"]
          /\ UNCHANGED <<nAlloc, elems, call, snap>>
    /\ UNCHANGED <<q, status, ret, live, appended, funcvars>>

\* A panic runs the deferred Unlock and ends the program.
Crash(g) ==
    /\ status' = "panic"
    /\ lock' = 0
    /\ pc' = [pc EXCEPT ![g] = "panicked"]

\* The deferred Unlock and the return.
Return(g) ==
    /\ lock' = 0
    /\ pc' = [pc EXCEPT ![g] = "idle"]
    /\ call' = [call EXCEPT ![g] = NoCall]
    /\ snap' = [snap EXCEPT ![g] = NoSnap]

InsertSwitchStep(g) ==
    /\ Running
    /\ pc[g] = "locked" /\ call[g].op = "Insert"
    /\ LET sw == insertSwitch(q, call[g].elem, PrioOf(elems)) IN
       /\ q' = sw.out.q
       /\ IF sw.out.st = "panic"
          THEN Crash(g) /\ UNCHANGED call
          ELSE /\ pc' = [pc EXCEPT ![g] = "mid"]
               /\ call' = [call EXCEPT ![g].err = sw.out.err,
                                       ![g].returned = sw.returned,
                                       ![g].out = IF Evicted(q) = {} THEN Nil
                                                  ELSE MinOf(Evicted(q))]
               /\ UNCHANGED <<lock, status>>
    /\ UNCHANGED <<elems, nAlloc, ret, live, appended, snap, funcvars>>

InsertCountStep(g) ==
    /\ Running
    /\ pc[g] = "mid" /\ call[g].op = "Insert"
    /\ q' = insertCount([out |-> Fail(q, call[g].err), returned |-> call[g].returned]).q
    /\ live' = IF call[g].err = ErrNone
               THEN (live \ {call[g].out}) \cup {call[g].elem}
               ELSE live
    /\ Return(g)
    /\ UNCHANGED <<elems, nAlloc, status, ret, appended, funcvars>>

AppendStep(g) ==
    /\ Running
    /\ pc[g] = "locked" /\ call[g].op = "Append"
    /\ q' = insertLifo(q, call[g].elem)
    /\ pc' = [pc EXCEPT ![g] = "mid"]
    /\ UNCHANGED <<elems, nAlloc, lock, status, ret, live, appended, call, snap, funcvars>>

AppendCountStep(g) ==
    /\ Running
    /\ pc[g] = "mid" /\ call[g].op = "Append"
    /\ q' = [q EXCEPT !.numElements = @ + 1]
    /\ live' = live \cup {call[g].elem}
    /\ appended' = TRUE
    /\ Return(g)
    /\ UNCHANGED <<elems, nAlloc, status, ret, funcvars>>

\* remove(q.numElements - 1) of Remove and RemoveElement: the deletion ...
DeleteStep(g) ==
    /\ Running
    /\ pc[g] = "locked" /\ call[g].op \in {"Remove", "RemoveElement"}
    /\ LET d == deleteWithoutMemoryManagement(q, q.numElements - 1) IN
       /\ q' = d.q
       /\ IF d.st = "panic"
          THEN Crash(g) /\ UNCHANGED call
          ELSE /\ pc' = [pc EXCEPT ![g] = "mid"]
               /\ call' = [call EXCEPT ![g].err = d.err, ![g].out = d.elem]
               /\ UNCHANGED <<lock, status>>
    /\ UNCHANGED <<elems, nAlloc, ret, live, appended, snap, funcvars>>

\* ... and handleShrink, then the return.
ShrinkStep(g) ==
    /\ Running
    /\ pc[g] = "mid" /\ call[g].op \in {"Remove", "RemoveElement"}
    /\ LET h == handleShrink(q) IN
       /\ q' = h.q
       /\ IF \/ h.st = "panic"
             \/ call[g].op = "Remove" /\ call[g].err = ErrNone /\ call[g].out = Nil
          THEN Crash(g) /\ UNCHANGED <<call, snap, live>>
          ELSE /\ Return(g)
               /\ live' = live \ {call[g].out}
               /\ UNCHANGED status
    /\ UNCHANGED <<elems, nAlloc, ret, appended, funcvars>>

UpdateStep(g) ==
    /\ Running
    /\ pc[g] = "locked" /\ call[g].op = "UpdatePriority"
    /\ LET u == UpdatePriorityBody(q, elems, call[g].old, call[g].new, call[g].perf) IN
       /\ q' = u.q
       /\ elems' = u.elems
       /\ IF u.st = "panic"
          THEN Crash(g) /\ UNCHANGED call
          ELSE /\ pc' = [pc EXCEPT ![g] = IF u.st = "deadlock" THEN "relock" ELSE "mid"]
               /\ call' = [call EXCEPT ![g].out = u.counter]
               /\ UNCHANGED <<lock, status>>
    /\ UNCHANGED <<nAlloc, ret, live, appended, snap, funcvars>>

UpdateReturn(g) ==
    /\ Running
    /\ pc[g] = "mid" /\ call[g].op = "UpdatePriority"
    /\ Return(g)
    /\ UNCHANGED <<q, elems, nAlloc, status, ret, live, appended, funcvars>>

ConcNext ==
    \E g \in Goroutines :
        \/ \E c \in CallInputs, priority \in ConcPrios : Lock(g, c, priority)
        \/ InsertSwitchStep(g)
        \/ InsertCountStep(g)
        \/ AppendStep(g)
        \/ AppendCountStep(g)
        \/ DeleteStep(g)
        \/ ShrinkStep(g)
        \/ UpdateStep(g)
        \/ UpdateReturn(g)

ConcSpec == Init /\ [][ConcNext]_vars

\* The scheduler runs every goroutine that can take a step, and sync.Mutex
\* hands the mutex to a goroutine that keeps waiting for it.
Fairness ==
    \A g \in Goroutines :
        /\ SF_vars(\E c \in CallInputs, priority \in ConcPrios : Lock(g, c, priority))
        /\ WF_vars(InsertSwitchStep(g) \/ InsertCountStep(g) \/ AppendStep(g)
                   \/ AppendCountStep(g) \/ DeleteStep(g) \/ ShrinkStep(g)
                   \/ UpdateStep(g) \/ UpdateReturn(g))

LiveSpec == Init /\ [][ConcNext]_vars /\ Fairness

\* --------------------------------------------------------- Iterator
\* Iterator(channelCapacity) makes the channel and the context, starts the
\* goroutine and returns; it does not lock the queue.  it.pc is where the
\* goroutine is: "none" (no Iterator yet), "spawned", "select" (at the
\* select of the loop), "send" (in the default case, at ch <- content),
\* "done" (the deferred function has closed the channel).  it.buf is the
\* channel's buffer, it.recv what the consumer has received, it.eof whether
\* the consumer has seen the channel closed.  it.hdr holds the elements the
\* slice header of the range clause reaches, it.arr all of that header's
\* array, and it.shared tells whether q.queueSlice still lies in that
\* array; it.val is the content the goroutine is sending; it.snapshot is
\* what the queue held when Iterator was called.
ChanCaps == 0..MaxChanCap

Iterator(channelCapacity) ==
    /\ Ready
    /\ it.pc = "none"
    /\ it' = [it EXCEPT !.pc = "spawned", !.cap = channelCapacity,
                        !.hdr = Elems(q.queueSlice), !.arr = q.queueSlice.arr,
                        !.shared = TRUE,
                        !.snapshot = [k \in 1..SLen(q.queueSlice) |->
                                        IF q.queueSlice.arr[k] = Nil THEN 0
                                        ELSE elems[q.queueSlice.arr[k]].content]]
    /\ UNCHANGED <<q, elems, nAlloc, lock, status, ret, live, appended, concvars,
                   res, ms, clone>>

\* The goroutine evaluates the range expression q.queueSlice, once, and
\* without the lock: of the calls that have changed q.queueSlice since the go
\* statement it sees all (the header is read as it is now) or none (as it
\* was at the go statement).
IterRange ==
    /\ status = "ok"
    /\ it.pc = "spawned"
    /\ \/ it' = [it EXCEPT !.pc = "select", !.i = 0,
                           !.hdr = Elems(q.queueSlice), !.arr = q.queueSlice.arr,
                           !.shared = TRUE]
       \/ it' = [it EXCEPT !.pc = "select", !.i = 0]
    /\ UNCHANGED <<q, elems, nAlloc, lock, status, ret, live, appended, concvars,
                   res, ms, clone>>

\* The loop head and the select: past the last element, or with the context
\* cancelled, the goroutine returns and the deferred function cancels the
\* context and closes the channel; else the default case is taken and
\* elem.Content() is evaluated.
IterSelect ==
    /\ status = "ok"
    /\ it.pc = "select"
    /\ IF it.i >= Len(it.hdr) \/ it.cancelled
       THEN /\ it' = [it EXCEPT !.pc = "done", !.cancelled = TRUE, !.closed = TRUE]
            /\ UNCHANGED status
       ELSE IF it.hdr[it.i + 1] = Nil
       THEN /\ it' = [it EXCEPT !.pc = "panicked"]
            /\ status' = "panic"
       ELSE /\ it' = [it EXCEPT !.pc = "send",
                               !.val = elems[it.hdr[it.i + 1]].content]
            /\ UNCHANGED status
    /\ UNCHANGED <<q, elems, nAlloc, lock, ret, live, appended, concvars, res, ms,
                   clone>>

\* ch <- content with room in the channel's buffer.
IterSend ==
    /\ status = "ok"
    /\ it.pc = "send"
    /\ Len(it.buf) < it.cap
    /\ it' = [it EXCEPT !.buf = Append(@, it.val),
                        !.i = @ + 1, !.pc = "select"]
    /\ UNCHANGED <<q, elems, nAlloc, lock, status, ret, live, appended, concvars,
                   res, ms, clone>>

\* The consumer receives: from the buffer, or from the goroutine waiting in
\* its send, or it finds the channel closed.
Receive ==
    /\ status = "ok"
    /\ it.pc # "none"
    /\ IF it.buf # <<>>
       THEN it' = [it EXCEPT !.recv = Append(@, Head(it.buf)), !.buf = Tail(@)]
       ELSE IF it.pc = "send"
       THEN it' = [it EXCEPT !.recv = Append(@, it.val),
                             !.i = @ + 1, !.pc = "select"]
       ELSE /\ it.closed /\ ~it.eof
            /\ it' = [it EXCEPT !.eof = TRUE]
    /\ UNCHANGED <<q, elems, nAlloc, lock, status, ret, live, appended, concvars,
                   res, ms, clone>>

\* The consumer calls the cancel function.
Cancel ==
    /\ status = "ok"
    /\ it.pc # "none"
    /\ ~it.cancelled
    /\ it' = [it EXCEPT !.cancelled = TRUE]
    /\ UNCHANGED <<q, elems, nAlloc, lock, status, ret, live, appended, concvars,
                   res, ms, clone>>

\* A queue is filled, Iterator is called on it, and the consumer receives
\* and cancels as it likes.
IterNext ==
    \/ it.pc = "none" /\ \E priority \in Prios : Insert(priority)
    \/ \E channelCapacity \in ChanCaps : Iterator(channelCapacity)
    \/ IterRange
    \/ IterSelect
    \/ IterSend
    \/ Receive
    \/ Cancel

IterSpec == Init /\ [][IterNext]_vars

\* The scheduler runs the goroutine whenever it can take a step; nothing
\* makes the consumer receive.
IterFairness == WF_vars(IterRange \/ IterSelect \/ IterSend)

IterLiveSpec == Init /\ [][IterNext]_vars /\ IterFairness

\* ------------------------------------------------ functional layer
\* The functions passed to Fold, Map and FilterInPlace.  A fold function
\* appends the element's content to the aggregate; "strict" returns an error
\* for an element of priority 1.  A projector or a filter keeps the
\* elements whose content is in keep and returns an error for those whose
\* content is in fail; the projector returns the element it is given.
ErrF == "f failed"

FoldInputs == {"collect", "strict"}
KeepInputs == {[keep |-> K, fail |-> F] : K \in SUBSET Ptrs, F \in {{}, {2}}}

\* f(aggregate, elem) of Fold.
ApplyFold(fn, aggregate, e, h) ==
    IF e = Nil THEN [val |-> aggregate, err |-> ErrNone, st |-> "panic"]
    ELSE IF fn = "strict" /\ h[e].priority = 1
    THEN [val |-> aggregate, err |-> ErrF, st |-> "ok"]
    ELSE [val |-> Append(aggregate, h[e].content), err |-> ErrNone, st |-> "ok"]

\* The loop of FoldUnsecure from index i on.  `aggregate, err := f(...)`
\* declares a new aggregate in the scope of the loop body: the function's
\* aggregate, which the next iteration passes to f and which is returned
\* after the loop, is not assigned.
RECURSIVE foldLoop(_, _, _, _, _)
foldLoop(s, h, i, aggregate, fn) ==
    IF i >= s.len THEN [val |-> aggregate, err |-> ErrNone, st |-> "ok"]
    ELSE LET inner == ApplyFold(fn, aggregate, At(s, i), h) IN
         IF inner.st = "panic" \/ inner.err # ErrNone THEN inner
         ELSE foldLoop(s, h, i + 1, aggregate, fn)

FoldUnsecure(qv, h, initial, fn) == foldLoop(qv.queueSlice, h, 0, initial, fn)

\* f(elem) of Map and f(elem.Content()) of FilterInPlace.
ApplyKeep(f, e, h) ==
    IF e = Nil THEN [elem |-> e, keep |-> FALSE, err |-> ErrNone, st |-> "panic"]
    ELSE [elem |-> e, keep |-> h[e].content \in f.keep,
          err |-> IF h[e].content \in f.fail THEN ErrF ELSE ErrNone, st |-> "ok"]

\* The loop of MapUnsecure from index i on: newQueue.Insert of every element
\* the projector keeps; the error Insert returns is dropped.
RECURSIVE mapLoop(_, _, _, _, _)
mapLoop(s, h, i, newQueue, f) ==
    IF i >= s.len THEN Ok(newQueue)
    ELSE LET r == ApplyKeep(f, At(s, i), h) IN
         IF r.st = "panic" THEN Panic(newQueue)
         ELSE IF r.keep /\ r.err = ErrNone
         THEN LET ins == insertBody(newQueue, r.elem, PrioOf(h)) IN
              IF ins.st = "panic" THEN Panic(ins.q)
              ELSE mapLoop(s, h, i + 1, ins.q, f)
         ELSE IF r.err # ErrNone THEN Fail(Nil, r.err)
         ELSE mapLoop(s, h, i + 1, newQueue, f)

\* MapUnsecure: the new queue starts with make([]Element, q.numElements)
\* as its buffer and q.numElements as its live count.
MapUnsecure(qv, h, f) ==
    mapLoop(qv.queueSlice, h, 0,
            [order |-> qv.order,
             queueSlice |-> MakeSlice(qv.numElements, qv.numElements),
             numElements |-> qv.numElements,
             maxnumElements |-> qv.maxnumElements],
            f)

\* The condition under which handleShrink moves the slice to a new array.
shrinks(qv) ==
    SLen(qv.queueSlice) * 100000 < shrinkFactor(qv) * SCap(qv.queueSlice)

\* The loop of FilterInPlaceUnsecure from index i on.  The range clause
\* reads its n0 elements through the slice header it copied before the
\* loop: c.A is what that header reaches of its backing array; while
\* c.shared, q.queueSlice lies in the same array (it is a suffix of c.A) and
\* the deletions of q.remove write into it.  A failed q.remove ends the
\* loop with its error.
RECURSIVE filterLoop(_, _, _, _, _)
filterLoop(c, i, n0, h, f) ==
    IF i >= n0 THEN c
    ELSE LET r == ApplyKeep(f, c.A[i + 1], h) IN
         IF r.st = "panic" THEN [c EXCEPT !.st = "panic"]
         ELSE IF r.err = ErrNone /\ ~r.keep
         THEN LET d == deleteWithoutMemoryManagement(c.q, i)
                  g == handleShrink(d.q)
                  off == Len(c.A) - SCap(c.q.queueSlice)
                  off2 == Len(c.A) - SCap(d.q.queueSlice)
                  A2 == IF c.shared
                        THEN SubSeq(c.A, 1, off)
                               \o (IF off2 > off THEN <<Nil>> ELSE <<>>)
                               \o d.q.queueSlice.arr
                        ELSE c.A
                  c2 == [c EXCEPT !.A = A2, !.q = g.q,
                                  !.shared = c.shared /\ ~shrinks(d.q)]
              IN  IF d.st = "panic" THEN [c EXCEPT !.A = A2, !.q = d.q, !.st = "panic"]
                  ELSE IF g.st = "panic" THEN [c2 EXCEPT !.st = "panic"]
                  ELSE IF d.err # ErrNone THEN [c2 EXCEPT !.err = d.err]
                  ELSE filterLoop(c2, i + 1, n0, h, f)
         ELSE IF r.err # ErrNone THEN [c EXCEPT !.err = r.err]
         ELSE filterLoop(c, i + 1, n0, h, f)

FilterInPlaceUnsecure(qv, h, f) ==
    LET c == filterLoop([A |-> qv.queueSlice.arr, q |-> qv, shared |-> TRUE,
                         st |-> "ok", err |-> ErrNone],
                        0, qv.queueSlice.len, h, f)
    IN  [q |-> c.q, st |-> c.st, err |-> c.err, elem |-> Nil]

\* GetAllElements: make([]T, q.numElements), then an append per element.
GetAllElementsBody(qv, h) ==
    IF \E k \in 1..SLen(qv.queueSlice) : qv.queueSlice.arr[k] = Nil
    THEN [val |-> <<>>, st |-> "panic"]
    ELSE [val |-> [k \in 1..qv.numElements |-> 0]
                    \o [k \in 1..SLen(qv.queueSlice) |-> h[qv.queueSlice.arr[k]].content],
          st |-> "ok"]

\* Fold(q, initial, f) with the empty list as initial.
Fold(fn) ==
    /\ Ready
    /\ LET r == FoldUnsecure(q, elems, <<>>, fn) IN
       /\ status' = r.st
       /\ res' = [op |-> "Fold", err |-> r.err, val |-> r.val]
    /\ UNCHANGED <<q, elems, nAlloc, lock, ret, live, appended, concvars, it, ms,
                   clone>>

Map(f) ==
    /\ Ready
    /\ LET r == MapUnsecure(q, elems, f) IN
       /\ status' = r.st
       /\ res' = [op |-> "Map", err |-> r.err, val |-> r.q]
    /\ UNCHANGED <<q, elems, nAlloc, lock, ret, live, appended, concvars, it, ms,
                   clone>>

FilterInPlace(f) ==
    /\ Ready
    /\ LET r == FilterInPlaceUnsecure(q, elems, f) IN
       /\ q' = r.q
       /\ status' = r.st
       /\ res' = [op |-> "FilterInPlace", err |-> r.err, val |-> f.keep]
       /\ live' = live \ ({q.queueSlice.arr[k] : k \in 1..SLen(q.queueSlice)}
                            \ {r.q.queueSlice.arr[k] : k \in 1..SLen(r.q.queueSlice)})
    /\ UNCHANGED <<elems, nAlloc, lock, ret, appended, concvars, it, ms,
                   clone>>

GetAllElements ==
    /\ Ready
    /\ LET r == GetAllElementsBody(q, elems) IN
       /\ status' = r.st
       /\ res' = [op |-> "GetAllElements", err |-> ErrNone, val |-> r.val]
    /\ UNCHANGED <<q, elems, nAlloc, lock, ret, live, appended, concvars, it, ms,
                   clone>>

\* The callers that fill a queue and fold it or read all its contents.
FoldNext ==
    \/ \E priority \in Prios : Insert(priority)
    \/ \E priority \in Prios : AppendElem(priority)
    \/ Remove
    \/ \E fn \in FoldInputs : Fold(fn)
    \/ GetAllElements

FoldSpec == Init /\ [][FoldNext]_vars

\* The callers that fill a queue and map it.
MapNext ==
    \/ \E priority \in Prios : Insert(priority)
    \/ \E priority \in Prios : AppendElem(priority)
    \/ Remove
    \/ \E f \in KeepInputs : Map(f)

MapSpec == Init /\ [][MapNext]_vars

\* The callers that fill a queue and filter it.
FilterNext ==
    \/ \E priority \in Prios : Insert(priority)
    \/ \E priority \in Prios : AppendElem(priority)
    \/ \E f \in KeepInputs : FilterInPlace(f)

FilterSpec == Init /\ [][FilterNext]_vars

\* -------------------------------------------------------- MergeSort
\* package sorting.  ms.sort is the array of the slice MergeSort is called
\* with, which all its invocations work on through subslices; ms.input is
\* what it held at the call.  An invocation is the pair <<lo, hi>> of the
\* subslice sort[lo:hi] it is called with, and ms.frames[<<lo, hi>>] its
\* frame: go is TRUE when it runs in a goroutine of its own, under
\* mergeSortChannel; pc is "idle" (not called), "start", "left" (in the call
\* MergeSort(sort[:lS])), "recv" (at <-retChan), "merge" (in the loop),
\* "ret" (returned; under mergeSortChannel: at retChan <- result),
\* "done" (its result has been taken).
SortValues == 0..MaxSortVal

RECURSIVE SeqsUpTo(_)
SeqsUpTo(n) ==
    IF n = 0 THEN {<<>>}
    ELSE SeqsUpTo(n - 1) \cup [1..n -> SortValues]

\* The invocations under MergeSort(sort[lo:hi]): more than two elements are
\* split at lS = len(sort) / 2.
RECURSIVE NodesOf(_, _)
NodesOf(lo, hi) ==
    IF hi - lo > 2
    THEN {<<lo, hi>>} \cup NodesOf(lo, lo + (hi - lo) \div 2)
                      \cup NodesOf(lo + (hi - lo) \div 2, hi)
    ELSE {<<lo, hi>>}

LeftOf(nd) == <<nd[1], nd[1] + (nd[2] - nd[1]) \div 2>>
RightOf(nd) == <<nd[1] + (nd[2] - nd[1]) \div 2, nd[2]>>

NoFrame == [pc |-> "idle", go |-> FALSE, sortedL |-> <<>>, sortedR |-> <<>>,
            i |-> 0, iL |-> 0, iR |-> 0]

\* The state in which MergeSort(sort) has just been called.
StartSort(sort) ==
    [sort |-> sort, input |-> sort,
     frames |-> [nd \in NodesOf(0, Len(sort)) |->
                   IF nd = <<0, Len(sort)>> THEN [NoFrame EXCEPT !.pc = "start"]
                   ELSE NoFrame]]

MergeInit ==
    /\ q = NewQueue(Fifo).q
    /\ elems = NoElems
    /\ nAlloc = 0
    /\ lock = 0
    /\ status = "ok"
    /\ ret = NoRet
    /\ live = {}
    /\ appended = FALSE
    /\ pc = [g \in Goroutines |-> "idle"]
    /\ call = [g \in Goroutines |-> NoCall]
    /\ snap = [g \in Goroutines |-> NoSnap]
    /\ res = NoRes
    /\ it = NoIter
    /\ clone = NoClone
    /\ \E sort \in SeqsUpTo(MaxSortLen) : ms = StartSort(sort)

queuevars == <<q, elems, nAlloc, lock, status, ret, live, appended, concvars, res, it,
               clone>>

\* sort[lo:hi] of the array.
Sub(sort, nd) == SubSeq(sort, nd[1] + 1, nd[2])

\* The merge with the comparison the other way round.
TakeLeftIfGreater(sortedL, sortedR, iL, iR) ==
    (iL < Len(sortedL)) /\ (~(iR < Len(sortedR)) \/ sortedL[iL + 1] >= sortedR[iR + 1])

\* The condition of the merge loop under which sortedL[iL] is taken.
TakeLeft(sortedL, sortedR, iL, iR) ==
    (iL < Len(sortedL)) /\ (~(iR < Len(sortedR)) \/ sortedL[iL + 1] <= sortedR[iR + 1])

\* From the entry of MergeSort to the loop, or to the call of the left half
\* after the go statement for the right half, or to the return of a slice
\* of at most one element.
Enter(nd) ==
    LET f == ms.frames[nd]
        len == nd[2] - nd[1]
        lS == len \div 2
    IN  /\ nd \in DOMAIN ms.frames
        /\ f.pc = "start"
        /\ IF len <= 1
           THEN ms' = [ms EXCEPT !.frames[nd].pc = "ret"]
           ELSE IF len > 2
           THEN ms' = [ms EXCEPT !.frames =
                         [@ EXCEPT ![nd] = [f EXCEPT !.pc = "left",
                                                     !.sortedL = [k \in 1..lS |-> 0],
                                                     !.sortedR = [k \in 1..(len - lS) |-> 0]],
                                   ![RightOf(nd)] = [@ EXCEPT !.pc = "start", !.go = TRUE],
                                   ![LeftOf(nd)] = [@ EXCEPT !.pc = "start"]]]
           ELSE ms' = [ms EXCEPT !.frames[nd] =
                         [f EXCEPT !.pc = "merge",
                                   !.sortedL = <<ms.sort[nd[1] + 1]>>,
                                   !.sortedR = <<ms.sort[nd[1] + 2]>>]]
        /\ UNCHANGED queuevars

\* copy(sortedL, MergeSort(sort[:lS])): the call has returned.
LeftReturn(nd) ==
    /\ nd \in DOMAIN ms.frames
    /\ ms.frames[nd].pc = "left"
    /\ ms.frames[LeftOf(nd)].pc = "ret"
    /\ ms' = [ms EXCEPT !.frames =
                [@ EXCEPT ![nd] = [@ EXCEPT !.pc = "recv",
                                            !.sortedL = Sub(ms.sort, LeftOf(nd))],
                          ![LeftOf(nd)] = [@ EXCEPT !.pc = "done"]]]
    /\ UNCHANGED queuevars

\* copy(sortedR, <-retChan) with the send retChan <- MergeSort(sort) of the
\* goroutine: retChan has no buffer, the two meet.
Recv(nd) ==
    /\ nd \in DOMAIN ms.frames
    /\ ms.frames[nd].pc = "recv"
    /\ ms.frames[RightOf(nd)].pc = "ret"
    /\ ms.frames[RightOf(nd)].go
    /\ ms' = [ms EXCEPT !.frames =
                [@ EXCEPT ![nd] = [@ EXCEPT !.pc = "merge",
                                            !.sortedR = Sub(ms.sort, RightOf(nd))],
                          ![RightOf(nd)] = [@ EXCEPT !.pc = "done"]]]
    /\ UNCHANGED queuevars

\* One iteration of the merge loop; after the last, the return.
MergeStep(nd) ==
    LET f == ms.frames[nd]
        len == nd[2] - nd[1]
        pcNext == IF f.i + 1 = len THEN "ret" ELSE "merge"
    IN  /\ nd \in DOMAIN ms.frames
        /\ f.pc = "merge"
        /\ f.i < len
        /\ IF TakeLeft(f.sortedL, f.sortedR, f.iL, f.iR)
           THEN ms' = [ms EXCEPT !.sort[nd[1] + f.i + 1] = f.sortedL[f.iL + 1],
                                 !.frames[nd] = [f EXCEPT !.i = @ + 1, !.iL = @ + 1,
                                                          !.pc = pcNext]]
           ELSE IF f.iR < Len(f.sortedR)
           THEN ms' = [ms EXCEPT !.sort[nd[1] + f.i + 1] = f.sortedR[f.iR + 1],
                                 !.frames[nd] = [f EXCEPT !.i = @ + 1, !.iR = @ + 1,
                                                          !.pc = pcNext]]
           ELSE ms' = [ms EXCEPT !.frames[nd].pc = "panic"]
        /\ UNCHANGED queuevars

\* The invocations of the calls with slices of every length.
AllNodes == UNION {NodesOf(0, n) : n \in 0..MaxSortLen}

MergeNext ==
    \E nd \in AllNodes :
        \/ Enter(nd)
        \/ LeftReturn(nd)
        \/ Recv(nd)
        \/ MergeStep(nd)

MergeSpec == MergeInit /\ [][MergeNext]_vars

\* The scheduler runs some goroutine as long as one can take a step.
MergeLiveSpec == MergeInit /\ [][MergeNext]_vars /\ WF_vars(MergeNext)

\* ------------------------------------------------------- MapInPlace
\* The mapping functions handed to MapInPlace: f.to gives the new content
\* for an old one, and f fails on the contents in f.fail.
MapFns == {[to |-> [c \in Ptrs |-> (c % MaxElems) + 1], fail |-> F] : F \in {{}, {2}}}

\* The loop of MapInPlaceUnsecure from index i on, on heap h: an element
\* before the one f fails on keeps its new content.
RECURSIVE mapInPlaceLoop(_, _, _, _)
mapInPlaceLoop(s, h, i, f) ==
    IF i >= s.len THEN [h |-> h, err |-> ErrNone, st |-> "ok"]
    ELSE LET elem == At(s, i) IN
         IF elem = Nil THEN [h |-> h, err |-> ErrNone, st |-> "panic"]
         ELSE IF h[elem].content \in f.fail THEN [h |-> h, err |-> ErrF, st |-> "ok"]
         ELSE mapInPlaceLoop(s, [h EXCEPT ![elem].content = f.to[@]], i + 1, f)

MapInPlaceUnsecure(qv, h, f) == mapInPlaceLoop(qv.queueSlice, h, 0, f)

MapInPlace(f) ==
    /\ Ready
    /\ LET r == MapInPlaceUnsecure(q, elems, f) IN
       /\ elems' = r.h
       /\ status' = r.st
       /\ res' = [op |-> "MapInPlace", err |-> r.err, val |-> <<>>]
    /\ UNCHANGED <<q, nAlloc, lock, ret, live, appended, concvars, it, ms, clone>>

\* ------------------------------------- calls while Iterator streams
\* The goroutine of Iterator reads the elements through the slice header of
\* its range clause while other calls work on q.queueSlice.  t.A is what
\* that header reaches of its array; while t.shared, q.queueSlice lies in the
\* same array, as a suffix of t.A, and what a call writes into q.queueSlice
\* shows in t.A.

\* t.A after a write that has left view, a slice of the same array.
Rebase(A, view) == SubSeq(A, 1, Len(A) - SCap(view)) \o view.arr

\* append(base, xs...) writes into the array of base when its capacity
\* suffices, and else moves the slice to another array.
aliasAppend(t, base, xs) ==
    IF t.shared /\ base.len + Len(xs) <= SCap(base)
    THEN [t EXCEPT !.A = Rebase(t.A, AppendSlice(base, xs))]
    ELSE [t EXCEPT !.shared = FALSE]

\* q.remove(i): the deletion clears a slot of the array and moves the
\* elements behind index i; handleShrink may move the slice to another array.
aliasRemove(t, qv, i) ==
    LET d == deleteWithoutMemoryManagement(qv, i)
        off == Len(t.A) - SCap(qv.queueSlice)
        off2 == Len(t.A) - SCap(d.q.queueSlice)
    IN  IF t.shared
        THEN [A |-> SubSeq(t.A, 1, off)
                      \o (IF off2 > off THEN <<Nil>> ELSE <<>>)
                      \o d.q.queueSlice.arr,
              shared |-> d.st = "panic" \/ ~shrinks(d.q)]
        ELSE t

\* insertFifo and the last line of backtrackInsertionPoint build the slice
\* in the array of []Element[T]{elem}.
aliasInsertFifo(t) == [t EXCEPT !.shared = FALSE]

aliasInsertFifoLimited(t, qv) ==
    IF qv.numElements = qv.maxnumElements /\ qv.maxnumElements # 0
    THEN LET r == remove(qv, qv.numElements - 1)
             a == aliasRemove(t, qv, qv.numElements - 1)
         IN  IF r.st = "panic" \/ r.err # ErrNone THEN a ELSE aliasInsertFifo(a)
    ELSE aliasInsertFifo(t)

aliasBacktrack(t, qv, elem, pr) ==
    LET s == qv.queueSlice
        D == {i \in 0..(qv.numElements - 1) :
                \/ ~IndexOK(s, i)
                \/ At(s, i) = Nil
                \/ pr[At(s, i)] # pr[elem]}
    IN  IF D = {} THEN aliasInsertFifo(t)
        ELSE LET i == MaxOf(D) IN
             IF ~IndexOK(s, i) \/ At(s, i) = Nil THEN t
             ELSE aliasAppend(t, SubSlice(s, i, s.len), <<elem>> \o SubSeq(s.arr, 1, i))

aliasSplice(t, qv, elem, Stops) ==
    LET s == qv.queueSlice IN
    IF Stops = {} THEN t
    ELSE LET i == MinOf(Stops) IN
         IF At(s, i) = Nil \/ ~SliceOK(s, 0, i - 1) THEN t
         ELSE aliasAppend(t, SubSlice(s, 0, i - 1), <<elem>> \o SubSeq(s.arr, i, s.len))

\* insertPriorityHigh (high) and insertPriorityLow (~high).
aliasInsertPriority(t, qv, elem, pr, high) ==
    LET s == qv.queueSlice
        n == qv.numElements
        before(a, b) == IF high THEN a < b ELSE a > b
    IN  IF n = 0 THEN aliasAppend(t, s, <<elem>>)
        ELSE IF ~IndexOK(s, n - 1) \/ At(s, n - 1) = Nil THEN t
        ELSE IF before(pr[At(s, n - 1)], pr[elem]) THEN aliasAppend(t, s, <<elem>>)
        ELSE LET same == pr[At(s, n - 1)] = pr[elem]
                 b == IF same THEN backtrackInsertionPoint(qv, elem, pr) ELSE Ok(qv)
                 t1 == IF same THEN aliasBacktrack(t, qv, elem, pr) ELSE t
                 u == b.q.queueSlice
             IN  IF b.st = "panic" THEN t1
                 ELSE aliasSplice(t1, b.q, elem,
                        {i \in 0..(u.len - 1) :
                            At(u, i) = Nil \/ ~before(pr[At(u, i)], pr[elem])})

\* The switch of Insert.
aliasInsert(t, qv, elem, pr) ==
    CASE qv.order = Fifo -> aliasInsertFifo(t)
      [] qv.order = Lifo -> aliasAppend(t, qv.queueSlice, <<elem>>)
      [] qv.order = PriorityHigh -> aliasInsertPriority(t, qv, elem, pr, TRUE)
      [] qv.order = PriorityLow -> aliasInsertPriority(t, qv, elem, pr, FALSE)
      [] qv.order = FifoLimited -> aliasInsertFifoLimited(t, qv)
      [] OTHER -> t

\* The goroutine of Iterator after a call that has left the array as in t.
Seen(t) == [it EXCEPT !.arr = t.A, !.shared = t.shared,
                      !.hdr = SubSeq(t.A, 1, Len(it.hdr))]

\* Insert and Remove, called by another goroutine once Iterator has returned.
StreamInsert(priority) ==
    /\ Ready
    /\ it.pc # "none"
    /\ nAlloc < MaxElems
    /\ LET e == nAlloc + 1
           h == NewPriorityElement(elems, e, priority)
           r == insertBody(q, e, PrioOf(h))
       IN  /\ q' = r.q
           /\ elems' = h
           /\ nAlloc' = e
           /\ status' = r.st
           /\ ret' = RetOf("Insert", r, h, e)
           /\ live' = IF r.st = "ok" /\ r.err = ErrNone
                      THEN (live \ Evicted(q)) \cup {e}
                      ELSE live
           /\ it' = Seen(aliasInsert([A |-> it.arr, shared |-> it.shared],
                                     q, e, PrioOf(h)))
    /\ UNCHANGED <<lock, appended, concvars, res, ms, clone>>

StreamRemove ==
    /\ Ready
    /\ it.pc # "none"
    /\ LET r == removeBody(q) IN
       /\ q' = r.q
       /\ status' = r.st
       /\ ret' = RetOf("Remove", r, elems, 0)
       /\ live' = live \ {r.elem}
    /\ it' = Seen(aliasRemove([A |-> it.arr, shared |-> it.shared],
                              q, q.numElements - 1))
    /\ UNCHANGED <<elems, nAlloc, lock, appended, concvars, res, ms, clone>>

\* A queue of up to MaxConcElems elements is filled, Iterator is called,
\* and while a consumer receives until the channel is closed, another
\* goroutine calls Insert, Remove and MapInPlace, the latter once; cancel is
\* not called.
StreamNext ==
    \/ it.pc = "none" /\ nAlloc < MaxConcElems
          /\ \E priority \in 1..MaxConcPrio : Insert(priority)
    \/ \E channelCapacity \in ChanCaps : Iterator(channelCapacity)
    \/ IterRange
    \/ IterSelect
    \/ IterSend
    \/ Receive
    \/ \E priority \in 1..MaxConcPrio : StreamInsert(priority)
    \/ StreamRemove
    \/ it.pc # "none" /\ res.op = "none" /\ \E f \in MapFns : MapInPlace(f)

StreamSpec == Init /\ [][StreamNext]_vars

\* ------------------------------------------------------------ Clone
\* The body of Clone: make([]Element[T], q.numElements) as the buffer of the
\* new queue, then copy, which moves as many elements as the shorter of the
\* two slices holds.  The elements themselves are not copied: the new
\* buffer holds the pointers of the old one.
CloneBody(qv) ==
    LET s == qv.queueSlice
        n == qv.numElements
    IN  [order |-> qv.order,
         queueSlice |-> [arr |-> [k \in 1..n |-> IF k <= SLen(s) THEN s.arr[k] ELSE Nil],
                         len |-> n],
         numElements |-> n,
         maxnumElements |-> qv.maxnumElements]

Clone ==
    /\ Ready
    /\ ~clone.made
    /\ clone' = [made |-> TRUE, q |-> CloneBody(q)]
    /\ UNCHANGED <<q, elems, nAlloc, lock, status, ret, live, appended, concvars,
                   res, it, ms>>

\* Insert, Remove, UpdatePriority and MapInPlace called on the queue Clone
\* has returned.
CloneInsert(priority) ==
    /\ Ready
    /\ clone.made
    /\ nAlloc < MaxElems
    /\ LET e == nAlloc + 1
           h == NewPriorityElement(elems, e, priority)
           r == insertBody(clone.q, e, PrioOf(h))
       IN  /\ clone' = [clone EXCEPT !.q = r.q]
           /\ elems' = h
           /\ nAlloc' = e
           /\ status' = r.st
           /\ ret' = RetOf("Insert", r, h, e)
    /\ UNCHANGED <<q, lock, live, appended, concvars, res, it, ms>>

CloneRemove ==
    /\ Ready
    /\ clone.made
    /\ LET r == removeBody(clone.q) IN
       /\ clone' = [clone EXCEPT !.q = r.q]
       /\ status' = r.st
       /\ ret' = RetOf("Remove", r, elems, 0)
    /\ UNCHANGED <<q, elems, nAlloc, lock, live, appended, concvars, res, it, ms>>

CloneUpdatePriority(old, new, perf) ==
    /\ Ready
    /\ clone.made
    /\ LET u == UpdatePriorityBody(clone.q, elems, old, new, perf) IN
       /\ clone' = [clone EXCEPT !.q = u.q]
       /\ elems' = u.elems
       /\ status' = u.st
       /\ ret' = IF u.st = "ok"
                 THEN [NoRet EXCEPT !.op = "UpdatePriority", !.arg = u.counter]
                 ELSE [NoRet EXCEPT !.op = "UpdatePriority"]
    /\ UNCHANGED <<q, nAlloc, lock, live, appended, concvars, res, it, ms>>

CloneMapInPlace(f) ==
    /\ Ready
    /\ clone.made
    /\ LET r == MapInPlaceUnsecure(clone.q, elems, f) IN
       /\ elems' = r.h
       /\ status' = r.st
       /\ res' = [op |-> "MapInPlace", err |-> r.err, val |-> <<>>]
    /\ UNCHANGED <<q, nAlloc, lock, ret, live, appended, concvars, it, ms, clone>>

\* The calls on the queue Clone has returned, and those on the original;
\* MapInPlace is called once, and the original takes up to MaxConcElems
\* elements.
CloneCalls ==
    \/ \E priority \in ConcPrios : CloneInsert(priority)
    \/ CloneRemove
    \/ \E old \in ConcPrios, new \in ConcPrios, perf \in BOOLEAN :
          CloneUpdatePriority(old, new, perf)
    \/ res.op = "none" /\ \E f \in MapFns : CloneMapInPlace(f)

OriginalCalls ==
    \/ nAlloc < MaxConcElems /\ \E priority \in ConcPrios : Insert(priority)
    \/ Remove
    \/ \E old \in ConcPrios, new \in ConcPrios, perf \in BOOLEAN :
          UpdatePriority(old, new, perf)
    \/ res.op = "none" /\ \E f \in MapFns : MapInPlace(f)

\* A queue is filled, cloned once, and both queues are worked on.
CloneNext ==
    \/ Clone
    \/ CloneCalls
    \/ OriginalCalls

CloneSpec == Init /\ [][CloneNext]_vars

\* ------------------------------------------------------------ claims
\* The elements that repeated Remove calls return until one fails.
RECURSIVE drain(_, _)
drain(qv, acc) ==
    LET r == removeBody(qv) IN
    IF r.st = "panic" THEN [seq |-> acc, st |-> "panic"]
    ELSE IF r.err # ErrNone THEN [seq |-> acc, st |-> "ok"]
    ELSE drain(r.q, Append(acc, r.elem))

Drain(qv) == drain(qv, <<>>)

Range(f) == {f[k] : k \in DOMAIN f}
Priorities(S) == {elems[p].priority : p \in S}
Ascending(n) == [k \in 1..n |-> k]

\* C1: in a PriorityHigh queue, after any sequence of Insert and Remove
\* calls, the next Remove succeeds and returns an element whose priority is
\* the maximum of the priorities of the elements in the queue; in a
\* PriorityLow queue, the minimum.  (Inserts do not panic.)
C1_RemoveReturnsExtreme ==
    q.order \in {PriorityHigh, PriorityLow} =>
        /\ status = "ok"
        /\ live # {} =>
              LET r == removeBody(q) IN
              /\ r.st = "ok" /\ r.err = ErrNone /\ r.elem # Nil
              /\ r.elem # Nil =>
                    elems[r.elem].priority =
                        IF q.order = PriorityHigh THEN MaxOf(Priorities(live))
                        ELSE MinOf(Priorities(live))

\* C2: in a PriorityHigh or PriorityLow queue, after Inserts that all carry
\* the same priority (and no Remove), the Insert calls have succeeded and
\* the following Remove calls return the elements in insertion order.
C2_TiesOldestFirst ==
    ( /\ q.order \in {PriorityHigh, PriorityLow}
      /\ \A p, r \in 1..nAlloc : elems[p].priority = elems[r].priority
      /\ \/ live = 1..nAlloc
         \/ status = "panic" /\ ret.op = "Insert" /\ live = 1..(nAlloc - 1) )
    => /\ status = "ok"
       /\ Drain(q) = [seq |-> Ascending(nAlloc), st |-> "ok"]

\* C3: after any sequence of Insert and Remove calls, Remove on a Fifo
\* queue returns the earliest-inserted element not yet removed, and on a
\* Lifo queue the most recently inserted one (elements are numbered in
\* insertion order); a Remove that has just returned an element returned
\* one older (Fifo) or newer (Lifo) than every element still in the queue.
C3_FifoLifoOrder ==
    q.order \in {Fifo, Lifo} =>
        /\ status = "ok"
        /\ live # {} =>
              removeBody(q).elem = IF q.order = Fifo THEN MinOf(live) ELSE MaxOf(live)
        /\ live = {} => removeBody(q).err = ErrEmptyQueue
        /\ (ret.op = "Remove" /\ ret.err = ErrNone) =>
              /\ ret.content = ret.elem
              /\ \A p \in live : IF q.order = Fifo THEN ret.elem < p ELSE ret.elem > p

\* C3 witness: a Fifo queue from which a Remove has returned an element
\* while a younger one is still queued.
C3_Witness ==
    /\ q.order = Fifo
    /\ ret.op = "Remove" /\ ret.err = ErrNone
    /\ Cardinality(live) >= 1
    /\ nAlloc = MaxElems

\* The smaller of two numbers.
Least(a, b) == IF a <= b THEN a ELSE b

\* C4: on a FifoLimited queue with limit L > 0 that holds its live count of
\* elements, at most L, an Insert succeeds and leaves the new element in
\* front of the most recent L - 1 old ones (the oldest is evicted at the
\* limit), the live count is the buffer length and at most L, and Remove
\* calls then return the elements oldest first.
C4_LimitedKeepsMostRecent ==
    [][ ( /\ q.order = FifoLimited
          /\ q.maxnumElements > 0
          /\ q.numElements = SLen(q.queueSlice)
          /\ q.numElements <= q.maxnumElements
          /\ ret'.op = "Insert" /\ nAlloc' = nAlloc + 1 )
        => /\ ret'.err = ErrNone
           /\ Elems(q'.queueSlice) =
                 <<nAlloc'>> \o SubSeq(Elems(q.queueSlice), 1,
                                       Least(q.numElements, q.maxnumElements - 1))
           /\ q'.numElements = SLen(q'.queueSlice)
           /\ q'.numElements <= q'.maxnumElements
           /\ Drain(q').seq = [k \in 1..SLen(q'.queueSlice) |->
                                 At(q'.queueSlice, SLen(q'.queueSlice) - k)]
      ]_vars

\* C5: after every call that completes, numElements = len(queueSlice).
C5_CountIsBufferLength ==
    status = "ok" => q.numElements = SLen(q.queueSlice)

\* C6: at any point of a sequence of Insert and Remove calls, under any
\* discipline, Len() is the number of Remove calls that succeed before
\* EmptyQueue, and those calls return exactly the elements inserted and
\* not yet removed, each once.
C6_DrainReturnsLive ==
    status = "ok" =>
        /\ Drain(q).st = "ok"
        /\ Len(Drain(q).seq) = q.numElements
        /\ Range(Drain(q).seq) = live
        /\ Cardinality(live) = q.numElements

\* The calls that read or remove the next element.
TailCalls(qv) ==
    {removeBody(qv), removeElementBody(qv), PeekElemBody(qv)}
        \cup {PeekElemAtIndexBody(qv, index) : index \in IndexInputs}

\* C7: on a queue that holds no elements, Remove, RemoveElement, PeekElem
\* and PeekElemAtIndex return ErrEmptyQueue and leave the buffer contents
\* and the live count as they were.
C7_EmptyQueueErrors ==
    (status = "ok" /\ SLen(q.queueSlice) = 0) =>
        \A r \in TailCalls(q) :
            /\ r.st = "ok"
            /\ r.err = ErrEmptyQueue
            /\ Elems(r.q.queueSlice) = Elems(q.queueSlice)
            /\ r.q.numElements = q.numElements

\* C7 witness: a queue emptied by removes on which such a call has failed.
C7_Witness ==
    /\ ret.op \in {"Remove", "RemoveElement", "PeekElem", "PeekElemAtIndex"}
    /\ ret.err = ErrEmptyQueue
    /\ q.order \in {Fifo, Lifo}
    /\ SLen(q.queueSlice) = 0
    /\ nAlloc >= 2
    /\ status = "ok"

\* C8: on a non-empty queue PeekElemAtIndex(index) returns
\* ErrIndexOutOfBounds for every index outside [0, numElements), negative
\* ones too, and for k inside returns the element k positions before the
\* tail and leaves the queue as it is.
C8_PeekAtIndexBounds ==
    (status = "ok" /\ q.numElements > 0 /\ q.numElements = SLen(q.queueSlice)) =>
        \A index \in IndexInputs :
            LET r == PeekElemAtIndexBody(q, index) IN
            /\ r.st = "ok"
            /\ r.q = q
            /\ IF index \in 0..(q.numElements - 1)
               THEN r.err = ErrNone /\ r.elem = At(q.queueSlice, q.numElements - 1 - index)
               ELSE r.err = ErrIndexOutOfBounds

\* C9: every call that has locked the queue's mutex returns and unlocks it.
C9_CallsReturn ==
    \A g \in Goroutines : (lock = g) ~> (lock = 0)

\* The goroutines that are between Lock and Unlock.
InCall(g) == pc[g] \in {"locked", "mid", "relock", "nested"}

MutualExclusion ==
    \A g, h \in Goroutines :
        /\ InCall(g) => lock = g
        /\ (InCall(g) /\ InCall(h)) => g = h

\* What the call of goroutine g makes of the queue and the heap it locked,
\* when nothing else runs between its Lock and its Unlock.
Serial(g) ==
    LET s == snap[g]
        c == call[g]
    IN  CASE c.op = "Insert" ->
               [q |-> insertBody(s.q, c.elem, PrioOf(s.elems)).q, elems |-> s.elems]
          [] c.op = "Append" ->
               [q |-> appendBody(s.q, c.elem).q, elems |-> s.elems]
          [] c.op = "Remove" ->
               [q |-> removeBody(s.q).q, elems |-> s.elems]
          [] c.op = "RemoveElement" ->
               [q |-> removeElementBody(s.q).q, elems |-> s.elems]
          [] c.op = "UpdatePriority" ->
               LET u == UpdatePriorityBody(s.q, s.elems, c.old, c.new, c.perf) IN
               [q |-> u.q, elems |-> u.elems]

\* No goroutine is in a call and the program runs.
Quiescent == status = "ok" /\ \A g \in Goroutines : pc[g] = "idle"

\* C10: concurrent calls of Insert, Append, Remove, RemoveElement and
\* UpdatePriority hold the mutex from Lock to Unlock, one at a time; a call
\* that returns leaves the buffer, the live count and the priorities as its
\* body alone makes them of the state it locked, so the calls take effect in
\* the order of their Locks; and between calls the live count is the number
\* of elements put in and not taken out (in the disciplines whose Insert
\* counts its element).
C10_CallsSerialized ==
    /\ []MutualExclusion
    /\ [][\A g \in Goroutines :
            (pc[g] = "mid" /\ pc'[g] = "idle") =>
                (q' = Serial(g).q /\ elems' = Serial(g).elems)]_vars
    /\ []((Quiescent /\ q.order # FifoLimited) => q.numElements = Cardinality(live))

\* C10 witness: goroutine 2 is inside Insert, past the switch, with the
\* element of an earlier call in the queue.
C10_Witness ==
    /\ pc[2] = "mid"
    /\ call[2].op = "Insert"
    /\ live = {1}
    /\ q.order = PriorityHigh
    /\ SLen(q.queueSlice) = 2

\* A queue whose live count is its buffer length and whose buffer holds no
\* nil element.
WellFormed(qv) ==
    /\ qv.numElements = SLen(qv.queueSlice)
    /\ \A k \in 1..SLen(qv.queueSlice) : qv.queueSlice.arr[k] # Nil

\* The buffer of a priority queue is sorted under the priorities of heap h:
\* non-decreasing from index 0 to the tail in a PriorityHigh queue,
\* non-increasing in a PriorityLow queue.
Sorted(qv, h) ==
    \A k \in 1..(SLen(qv.queueSlice) - 1) :
        LET a == qv.queueSlice.arr[k]
            b == qv.queueSlice.arr[k + 1]
        IN  /\ a # Nil /\ b # Nil
            /\ IF qv.order = PriorityHigh
               THEN h[a].priority <= h[b].priority
               ELSE h[a].priority >= h[b].priority

\* The index of element p in sequence s.
PosIn(s, p) == CHOOSE k \in 1..Len(s) : s[k] = p

\* C11: on a sorted PriorityHigh or PriorityLow queue
\* UpdatePriority(old, new, false) returns, gives priority new to exactly
\* the elements that had priority old, leaves the buffer sorted by the new
\* priorities with the same elements, and keeps the updated elements in
\* their relative order.
C11_UpdatePriorityResorts ==
    ( /\ status = "ok"
      /\ q.order \in {PriorityHigh, PriorityLow}
      /\ WellFormed(q)
      /\ Sorted(q, elems) )
    => \A old \in Prios, new \in Prios :
          LET u == UpdatePriorityBody(q, elems, old, new, FALSE)
              before == Elems(q.queueSlice)
              after == Elems(u.q.queueSlice)
              Updated == {p \in Range(before) : elems[p].priority = old}
          IN  /\ u.st = "ok"
              /\ \A p \in Range(before) :
                    u.elems[p].priority =
                        IF p \in Updated THEN new ELSE elems[p].priority
              /\ WellFormed(u.q)
              /\ Sorted(u.q, u.elems)
              /\ Len(after) = Len(before)
              /\ Range(after) = Range(before)
              /\ \A p \in Updated, r \in Updated :
                    PosIn(before, p) < PosIn(before, r)
                        => PosIn(after, p) < PosIn(after, r)

\* C12: under Fifo, Lifo, PriorityHigh and PriorityLow and for both values
\* of the performance flag, UpdatePriority(old, new, flag) returns, and the
\* number it returns is the number of elements that had priority old.
C12_UpdatePriorityCounts ==
    ( /\ status = "ok"
      /\ q.order \in {Fifo, Lifo, PriorityHigh, PriorityLow}
      /\ WellFormed(q)
      /\ q.order \in {PriorityHigh, PriorityLow} => Sorted(q, elems) )
    => \A old \in Prios, new \in Prios, perf \in BOOLEAN :
          LET u == UpdatePriorityBody(q, elems, old, new, perf) IN
          /\ u.st = "ok"
          /\ u.counter = Cardinality({k \in 1..SLen(q.queueSlice) :
                                        elems[q.queueSlice.arr[k]].priority = old})

\* C13: once the cancel function has been called, the goroutine of Iterator
\* eventually closes the channel and exits, whatever the capacity of the
\* channel and whether or not the consumer goes on receiving.
C13_CancelStopsIterator ==
    (it.pc # "none" /\ it.cancelled) ~> (it.pc = "done" /\ it.closed)

\* The contents of the queue's elements in buffer order, index 0 first.
Contents(qv, h) ==
    [k \in 1..SLen(qv.queueSlice) |->
        IF qv.queueSlice.arr[k] = Nil THEN 0 ELSE h[qv.queueSlice.arr[k]].content]

\* C14: Fold with the function that appends each element's content to a
\* list, from the empty list, returns no error and the queue's contents in
\* buffer order, index 0 first.
C14_FoldCollectsInOrder ==
    (status = "ok" /\ WellFormed(q)) =>
        LET r == FoldUnsecure(q, elems, <<>>, "collect") IN
        /\ r.st = "ok"
        /\ r.err = ErrNone
        /\ r.val = Contents(q, elems)

\* The projector that keeps every element.
KeepAll == [keep |-> Ptrs, fail |-> {}]

\* C15: Map with a projector that keeps every element and returns it
\* unchanged returns a queue of the same discipline, limit and live count
\* with the same elements in the same buffer order, from which Remove calls
\* return what they return from q; with a projector that drops some
\* elements (and returns no error) the new queue holds exactly the kept
\* ones.
C15_MapKeepsQueue ==
    (status = "ok" /\ WellFormed(q)) =>
        /\ LET r == MapUnsecure(q, elems, KeepAll) IN
           /\ r.st = "ok"
           /\ r.err = ErrNone
           /\ r.q.order = q.order
           /\ r.q.maxnumElements = q.maxnumElements
           /\ r.q.numElements = q.numElements
           /\ Elems(r.q.queueSlice) = Elems(q.queueSlice)
           /\ Drain(r.q) = Drain(q)
        /\ \A f \in KeepInputs :
              f.fail = {} =>
                  LET r == MapUnsecure(q, elems, f) IN
                  /\ r.st = "ok"
                  /\ r.err = ErrNone
                  /\ Range(Elems(r.q.queueSlice)) =
                        {p \in Range(Elems(q.queueSlice)) : elems[p].content \in f.keep}
                  /\ r.q.numElements =
                        Cardinality({k \in 1..SLen(q.queueSlice) :
                                       elems[q.queueSlice.arr[k]].content \in f.keep})

\* The elements of sequence s whose content is in K, in the order of s.
KeptOf(s, K) == SelectSeq(s, LAMBDA p : elems[p].content \in K)

\* C16: FilterInPlace with a filter that returns no error returns nil and
\* leaves in the buffer exactly the elements the filter keeps, in their
\* former order, with the live count their number.
C16_FilterKeepsSurvivors ==
    (status = "ok" /\ WellFormed(q)) =>
        \A f \in KeepInputs :
            f.fail = {} =>
                LET r == FilterInPlaceUnsecure(q, elems, f) IN
                /\ r.st = "ok"
                /\ r.err = ErrNone
                /\ Elems(r.q.queueSlice) = KeptOf(Elems(q.queueSlice), f.keep)
                /\ r.q.numElements = Len(KeptOf(Elems(q.queueSlice), f.keep))

\* The five disciplines the package defines.
Disciplines == {Fifo, Lifo, PriorityHigh, PriorityLow, FifoLimited}

\* C17: NewQueue(tp) returns ErrInvalidQueueType and no queue for every tp
\* that is not one of the five disciplines, and an empty queue with live
\* count 0 and limit 0 for each of the five; so every queue NewQueue has
\* returned is of one of the five disciplines, and no Insert into it returns
\* ErrInvalidQueueType.
C17_NewQueueRejectsUndefined ==
    /\ \A tp \in TpInputs :
          IF tp \in Disciplines
          THEN /\ NewQueue(tp).err = ErrNone
               /\ NewQueue(tp).q = [order |-> tp, queueSlice |-> MakeSlice(0, 0),
                                    numElements |-> 0, maxnumElements |-> 0]
          ELSE NewQueue(tp).err = ErrInvalidQueueType
    /\ q.order \in Disciplines
    /\ ret.op = "Insert" => ret.err # ErrInvalidQueueType

\* C18: GetAllElements returns exactly numElements values, the contents of
\* the queue's elements in buffer order, index 0 first.
C18_GetAllElementsIsContents ==
    (status = "ok" /\ WellFormed(q)) =>
        LET r == GetAllElementsBody(q, elems) IN
        /\ r.st = "ok"
        /\ Len(r.val) = q.numElements
        /\ r.val = Contents(q, elems)

\* The invocation MergeSort was called with, and whether it has returned
\* with every other invocation finished and its result taken.
Root == <<0, Len(ms.input)>>

SortDone ==
    \A nd \in DOMAIN ms.frames :
        ms.frames[nd].pc = IF nd = Root THEN "ret" ELSE "done"

IsSorted(s) == \A k \in 1..(Len(s) - 1) : s[k] <= s[k + 1]

Count(s, v) == Cardinality({k \in 1..Len(s) : s[k] = v})

\* C19: MergeSort returns, with no goroutine left in its send, the slice
\* sorted ascending with the integers it was called with, each as often as
\* before; the invocations that run at the same time work on disjoint index
\* ranges.
C19_MergeSortSorts ==
    /\ [](\A nd \in DOMAIN ms.frames : ms.frames[nd].pc # "panic")
    /\ [](\A a \in DOMAIN ms.frames, b \in DOMAIN ms.frames :
            ( /\ a # b
              /\ ms.frames[a].pc \in {"start", "merge"}
              /\ ms.frames[b].pc \in {"start", "merge"} )
            => (a[2] <= b[1] \/ b[2] <= a[1]))
    /\ [](SortDone =>
            /\ IsSorted(ms.sort)
            /\ Len(ms.sort) = Len(ms.input)
            /\ \A v \in SortValues : Count(ms.sort, v) = Count(ms.input, v))
    /\ <>SortDone

\* C19 witness: MergeSort has returned from a slice of the greatest length
\* neither half of which was sorted.
C19_Witness ==
    /\ SortDone
    /\ Len(ms.input) = MaxSortLen
    /\ ms.input[1] > ms.input[2]
    /\ ms.input[MaxSortLen - 1] > ms.input[MaxSortLen]

\* Sequence s without its element p.
Without(s, p) == SelectSeq(s, LAMBDA x : x # p)

\* C20: an Insert into a sorted PriorityHigh or PriorityLow queue succeeds
\* and leaves the buffer sorted (non-decreasing from index 0 to the tail
\* for PriorityHigh, non-increasing for PriorityLow), holding the new element
\* once and the elements it held before, in their former order, with the
\* live count the buffer length.
C20_InsertKeepsSorted ==
    [][ ( /\ q.order \in {PriorityHigh, PriorityLow}
          /\ status = "ok"
          /\ WellFormed(q)
          /\ Sorted(q, elems)
          /\ ret'.op = "Insert" /\ nAlloc' = nAlloc + 1 )
        => /\ status' = "ok"
           /\ ret'.err = ErrNone
           /\ WellFormed(q')
           /\ Sorted(q', elems')
           /\ SLen(q'.queueSlice) = SLen(q.queueSlice) + 1
           /\ Without(Elems(q'.queueSlice), nAlloc') = Elems(q.queueSlice)
      ]_vars


\* C21: what Iterator streams is the contents the queue had when Iterator
\* was called: what the consumer has received and what waits in the channel
\* is at every moment a prefix of those contents, the goroutine does not
\* panic, and a consumer that has seen the channel closed (cancel not
\* called) has received each of them once, in buffer order, whatever
\* Insert, Remove and MapInPlace calls other goroutines have made since
\* Iterator returned.
IsPrefix(s, t) == Len(s) <= Len(t) /\ s = SubSeq(t, 1, Len(s))
C21_IteratorStreamsSnapshot ==
    it.pc # "none" =>
        /\ it.pc # "panicked"
        /\ IsPrefix(it.recv \o it.buf, it.snapshot)
        /\ (it.eof => it.recv = it.snapshot)


\* What a caller can observe of queue qv under heap h: discipline, limit,
\* live count, and the elements of the buffer in order, each with its
\* priority and content.
Observed(qv, h) ==
    [order |-> qv.order, limit |-> qv.maxnumElements, count |-> qv.numElements,
     buffer |-> Elems(qv.queueSlice),
     elements |-> [k \in 1..SLen(qv.queueSlice) |->
                     IF qv.queueSlice.arr[k] = Nil THEN NoElems[1]
                     ELSE h[qv.queueSlice.arr[k]]]]

\* C22: Clone of a well-formed queue returns a queue with the discipline,
\* limit, live count and elements (in buffer order) of the original, and
\* from then on an Insert, Remove, UpdatePriority or MapInPlace on the clone
\* leaves the original's buffer, live count and its elements' priorities and
\* contents as they were, and such a call on the original leaves the
\* clone's.
C22_CloneIsIndependent ==
    [][ /\ (Clone /\ WellFormed(q))
            => Observed(clone'.q, elems') = Observed(q, elems)
        /\ (CloneCalls /\ WellFormed(q))
            => Observed(q', elems') = Observed(q, elems)
        /\ (OriginalCalls /\ clone.made /\ WellFormed(clone.q))
            => Observed(clone'.q, elems') = Observed(clone.q, elems)
      ]_vars

=============================================================================
